---- MODULE Spec2Model ----
(***************************************************************************)
(* Model of ghost-tripper's 1LMG container codec: decode_1LMG (decode.py)  *)
(* and encode_1LMG (encode.py), stepped through a small file system.       *)
(* Bytes are naturals 0..255, Python str values are sequences of code      *)
(* points (all ASCII here, so UTF-8 is one byte per code point).           *)
(***************************************************************************)
EXTENDS Integers, Sequences, FiniteSets, TLC

\* ---------------------------------------------------------------- bounds
MaxMessages == 2
MaxUnits == 2
MaxPieces == 4

\* ------------------------------------------------------- Python helpers
Min(a, b) == IF a < b THEN a ELSE b
Max(a, b) == IF a > b THEN a ELSE b

\* s[a:b] for 0 <= a, with b clamped to len(s)
Slice(s, a, b) == SubSeq(s, a + 1, Min(b, Len(s)))

\* bytes(n)
Zeros(n) == [i \in 1..n |-> 0]

\* struct.pack('<L', v)
pack_L(v) == << v % 256, (v \div 256) % 256, (v \div 65536) % 256, (v \div 16777216) % 256 >>

\* struct.unpack('<L', b) for a 4-byte b
unpack_L(b) == b[1] + 256 * b[2] + 65536 * b[3] + 16777216 * b[4]

\* BytesIO.read(n) at position pos: at most n bytes, fewer at the end
ReadAt(buf, pos, n) == Slice(buf, pos, pos + n)

\* b'1LMG'
Magic == << 49, 76, 77, 71 >>

\* the header is always 0x34 long
HeaderSize == 52

RECURSIVE Concat(_)
Concat(ss) == IF ss = << >> THEN << >> ELSE Head(ss) \o Concat(Tail(ss))

\* str.encode() / the "utf-8" text files, for code points below 0x800
utf8_encode(str) ==
    Concat([j \in 1..Len(str) |->
        IF str[j] < 128 THEN << str[j] >>
        ELSE << 192 + str[j] \div 64, 128 + (str[j] % 64) >>])

RECURSIVE utf8_decode(_)
utf8_decode(b) ==
    IF b = << >> THEN << >>
    ELSE IF b[1] < 128 \/ Len(b) < 2 THEN << b[1] >> \o utf8_decode(Tail(b))
    ELSE << (b[1] - 192) * 64 + (b[2] - 128) >> \o utf8_decode(Tail(Tail(b)))

\* str.find(sub): the first 0-based index of sub in s, or -1
Find(s, sub) ==
    LET hits == {j \in 0..(Len(s) - Len(sub)) : SubSeq(s, j + 1, j + Len(sub)) = sub}
    IN  IF hits = {} THEN -1 ELSE CHOOSE j \in hits : \A h \in hits : j <= h

\* str.rfind(sub): the last 0-based index of sub in s, or -1
RFind(s, sub) ==
    LET hits == {j \in 0..(Len(s) - Len(sub)) : SubSeq(s, j + 1, j + Len(sub)) = sub}
    IN  IF hits = {} THEN -1 ELSE CHOOSE j \in hits : \A h \in hits : j >= h

RECURSIVE Split(_, _)
\* str.split(sep)
Split(s, sep) ==
    LET at == Find(s, sep)
    IN  IF at = -1 THEN << s >>
        ELSE << SubSeq(s, 1, at) >> \o Split(SubSeq(s, at + Len(sep) + 1, Len(s)), sep)

\* ------------------------------------------- lib.tables / lib.message
\* commands[0xfffe], the stop marker's token: "[STOP]"
commands_fffe == << 91, 83, 84, 79, 80, 93 >>

\* the character table: 16-bit unit -> code point ('0' and '1')
characters == (0 :> 48) @@ (1 :> 49)

\* the stop marker's opcode, little-endian 0xfffe
StopBytes == << 254, 255 >>

\* the text of one 16-bit unit of a payload
RenderUnit(lo, hi) ==
    IF << lo, hi >> = StopBytes THEN commands_fffe
    ELSE << characters[lo + 256 * hi] >>

KnownUnit(lo, hi) == << lo, hi >> = StopBytes \/ (lo + 256 * hi) \in DOMAIN characters

\* Message.decode: the payload data[pointer : pointer+length] rendered left to
\* right; a payload that is not a whole number of known units is a structural
\* error (ok = FALSE)
Message_decode(buf, pointer, length) ==
    LET wellformed == /\ length >= 0
                      /\ length % 2 = 0
                      /\ pointer >= 0
                      /\ pointer + length <= Len(buf)
        payload == IF wellformed THEN Slice(buf, pointer, pointer + length) ELSE << >>
        n == Len(payload) \div 2
        known == \A k \in 1..n : KnownUnit(payload[2 * k - 1], payload[2 * k])
    IN  IF wellformed /\ known
        THEN [ok |-> TRUE,
              text |-> Concat([k \in 1..n |-> RenderUnit(payload[2 * k - 1], payload[2 * k])])]
        ELSE [ok |-> FALSE, text |-> << >>]

\* Message.encode: the inverse scan; line feeds are layout only; an unknown
\* token or character gives an error description instead of bytes (ok = FALSE)
RECURSIVE EncodeFrom(_, _)
EncodeFrom(text, i) ==
    IF i > Len(text) THEN [ok |-> TRUE, bytes |-> << >>]
    ELSE IF text[i] = 10 THEN EncodeFrom(text, i + 1)
    ELSE IF text[i] = 91
         THEN IF Slice(text, i - 1, i - 1 + Len(commands_fffe)) = commands_fffe
              THEN LET rest == EncodeFrom(text, i + Len(commands_fffe))
                   IN  [ok |-> rest.ok, bytes |-> StopBytes \o rest.bytes]
              ELSE [ok |-> FALSE, bytes |-> << >>]
    ELSE IF \E u \in DOMAIN characters : characters[u] = text[i]
         THEN LET u == CHOOSE v \in DOMAIN characters : characters[v] = text[i]
                  rest == EncodeFrom(text, i + 1)
              IN  [ok |-> rest.ok, bytes |-> << u % 256, u \div 256 >> \o rest.bytes]
    ELSE [ok |-> FALSE, bytes |-> << >>]

Message_encode(text) == EncodeFrom(text, 1)

\* the separator line "===\n"
Separator == << 61, 61, 61, 10 >>

\* the positional annotation's marker " Position"
PositionMarker == << 32, 80, 111, 115, 105, 116, 105, 111, 110 >>

\* Message.__str__: separator, label line with its annotation, separator, text
Message_str(m) ==
    Separator \o m.label \o PositionMarker \o << 10 >> \o Separator \o m.decoded \o << 10 >>

\* Message.get_label: the zero-terminated label at labels_position + label offset
get_label(buf, labels_position, label_pointer) ==
    LET start == labels_position + label_pointer
        ends == {k \in (start + 1)..Len(buf) : buf[k] = 0}
        stop == IF ends = {} THEN Len(buf) + 1
                ELSE CHOOSE k \in ends : \A j \in ends : k <= j
    IN  SubSeq(buf, start + 1, stop - 1)

\* ------------------------------------------------------------ lib.lz11
LzFail == [ok |-> FALSE, out |-> << >>]

RECURSIVE CopyBack(_, _, _)
\* a back-reference copies byte by byte, so it may overlap its own output
CopyBack(out, dist, n) ==
    IF n = 0 THEN out ELSE CopyBack(Append(out, out[Len(out) + 1 - dist]), dist, n - 1)

RECURSIVE LzTokens(_, _, _, _, _, _)
\* s: the stream, pos: bytes consumed, left: tokens left in the current group
LzTokens(s, pos, out, size, flag, left) ==
    IF Len(out) >= size THEN [ok |-> TRUE, out |-> out]
    ELSE IF left = 0
         THEN IF pos >= Len(s) THEN LzFail
              ELSE LzTokens(s, pos + 1, out, size, s[pos + 1], 8)
    ELSE IF (flag \div (2 ^ (left - 1))) % 2 = 0
         THEN IF pos >= Len(s) THEN LzFail
              ELSE LzTokens(s, pos + 1, Append(out, s[pos + 1]), size, flag, left - 1)
    ELSE IF pos >= Len(s) THEN LzFail
    ELSE LET b0 == s[pos + 1]
             nib == b0 \div 16
             width == IF nib = 0 THEN 3 ELSE IF nib = 1 THEN 4 ELSE 2
         IN  IF pos + width > Len(s) THEN LzFail
             ELSE LET b1 == s[pos + 2]
                      b2 == s[pos + 3]
                      b3 == s[pos + 4]
                      length == IF nib = 0 THEN ((b0 % 16) * 16 + b1 \div 16) + 17
                                ELSE IF nib = 1
                                     THEN ((b0 % 16) * 4096 + b1 * 16 + b2 \div 16) + 273
                                ELSE nib + 1
                      dist == IF nib = 0 THEN ((b1 % 16) * 256 + b2) + 1
                              ELSE IF nib = 1 THEN ((b2 % 16) * 256 + b3) + 1
                              ELSE ((b0 % 16) * 256 + b1) + 1
                  IN  IF dist > Len(out) \/ Len(out) + length > size THEN LzFail
                      ELSE LzTokens(s, pos + width, CopyBack(out, dist, length),
                                    size, flag, left - 1)

\* lz11_decompress: type byte 0x11, 3-byte size (4 more bytes when it is zero),
\* then the token groups; a malformed stream fails (ok = FALSE)
lz11_decompress(s) ==
    IF Len(s) < 4 \/ s[1] # 17 THEN LzFail
    ELSE LET size3 == s[2] + 256 * s[3] + 65536 * s[4]
         IN  IF size3 # 0 THEN LzTokens(s, 4, << >>, size3, 0, 0)
             ELSE IF Len(s) < 8 THEN LzFail
             ELSE LzTokens(s, 8, << >>, unpack_L(SubSeq(s, 5, 8)), 0, 0)

RECURSIVE MatchLen(_, _, _, _)
\* how far b[p..] repeats b[p-d..], from k matched bytes on
MatchLen(b, p, d, k) ==
    IF p + k < Len(b) /\ k < 273 + 4095 /\ b[p + k + 1] = b[p + k + 1 - d]
    THEN MatchLen(b, p, d, k + 1)
    ELSE k

\* the longest earlier match within the 4096-byte window, the nearest on a tie
BestMatch(b, p) ==
    LET lens == [d \in 1..Min(p, 4096) |-> MatchLen(b, p, d, 0)]
        best == IF p = 0 THEN 0
                ELSE CHOOSE l \in {lens[d] : d \in DOMAIN lens} :
                         \A d \in DOMAIN lens : lens[d] <= l
        dist == IF best < 3 THEN 0
                ELSE CHOOSE d \in DOMAIN lens :
                         lens[d] = best /\ \A e \in DOMAIN lens : lens[e] = best => d <= e
    IN  [length |-> best, dist |-> dist]

\* the narrowest reference encoding that covers the length
RefBytes(length, dist) ==
    LET disp == dist - 1
    IN  IF length <= 16 THEN << (length - 1) * 16 + disp \div 256, disp % 256 >>
        ELSE IF length <= 272
             THEN << (length - 17) \div 16, ((length - 17) % 16) * 16 + disp \div 256,
                     disp % 256 >>
        ELSE << 16 + (length - 273) \div 4096, ((length - 273) \div 16) % 256,
                ((length - 273) % 16) * 16 + disp \div 256, disp % 256 >>

RECURSIVE LzEmit(_, _)
\* the greedy token sequence of b from position p on
LzEmit(b, p) ==
    IF p >= Len(b) THEN << >>
    ELSE LET m == BestMatch(b, p)
         IN  IF m.length >= 3
             THEN << [ref |-> 1, bytes |-> RefBytes(m.length, m.dist)] >>
                  \o LzEmit(b, p + m.length)
             ELSE << [ref |-> 0, bytes |-> << b[p + 1] >>] >> \o LzEmit(b, p + 1)

RECURSIVE FlagOf(_, _)
\* the flag byte of a group, most significant bit first
FlagOf(g, j) ==
    IF j > Len(g) THEN 0 ELSE g[j].ref * (2 ^ (8 - j)) + FlagOf(g, j + 1)

RECURSIVE LzGroups(_)
LzGroups(toks) ==
    IF toks = << >> THEN << >>
    ELSE LET g == SubSeq(toks, 1, Min(8, Len(toks)))
         IN  << FlagOf(g, 1) >> \o Concat([j \in 1..Len(g) |-> g[j].bytes])
             \o LzGroups(SubSeq(toks, 9, Len(toks)))

\* lz11_compress: stream header, then the grouped greedy tokens
lz11_compress(b) ==
    << 17, Len(b) % 256, (Len(b) \div 256) % 256, (Len(b) \div 65536) % 256 >>
    \o LzGroups(LzEmit(b, 0))

\* ------------------------------------------------------------- state
VARIABLES
    fs,        \* the files: path -> [exists, bytes]
    stage,     \* which call of the session comes next
    call,      \* the running call's arguments: fn, loadpath, savepath, compress
    pc,        \* the running call's position
    dec,       \* decode_1LMG's locals
    enc,       \* encode_1LMG's locals
    ret,       \* the last call's return value
    stderr,    \* the diagnostics written, in order
    stdout,    \* the text printed
    fs0        \* the files as they were when the running call started

vars == << fs, stage, call, pc, dec, enc, ret, stderr, stdout, fs0 >>

Paths == {"in", "txt", "bin", "bin.lz", "txt2"}

\* savepath[-3:] == ".lz"
EndsWithLz(path) == path = "bin.lz"

NoFile == [exists |-> FALSE, bytes |-> << >>]
File(b) == [exists |-> TRUE, bytes |-> b]

\* Message(label pointer, data pointer): created empty, no length yet
Message(label_pointer, pointer) ==
    [label_pointer |-> label_pointer, pointer |-> pointer, length |-> 0,
     length_set |-> FALSE, label |-> << >>, decoded |-> << >>]

DecInit ==
    [data |-> << >>, pos |-> 0, mystery |-> 0, data_length |-> 0, string_length |-> 0,
     string_position |-> 0, pointers_position |-> 0, message_count |-> 0,
     labels_position |-> 0, messages |-> << >>, m |-> 0, k |-> 0]

EncInit ==
    [segments |-> << >>, messages |-> << >>, data |-> << >>, strings |-> << >>,
     table |-> << >>, labels |-> << >>, header |-> << >>, i |-> 0]

Return(v) == /\ ret' = v
             /\ pc' = "returned"

Raise == /\ pc' = "raised"
         /\ UNCHANGED ret

\* ------------------------------------------------------- decode_1LMG
\* decode_1LMG's error codes, as each return statement gives them
NotFormatCode == -1
CompressedCode == -1
DecompressFailedCode == -3
EmptyCode == -2

decode_open ==
    /\ pc = "d_open"
    /\ dec' = [DecInit EXCEPT !.data = fs[call.loadpath].bytes]
    /\ pc' = "d_magic"
    /\ UNCHANGED << fs, stage, call, enc, ret, stderr, stdout, fs0 >>

decode_magic ==
    /\ pc = "d_magic"
    /\ IF Slice(dec.data, 0, 4) # Magic
       THEN IF Slice(dec.data, 5, 9) = Magic
            THEN IF call.compress > 1
                 THEN LET r == lz11_decompress(dec.data)
                      IN  IF r.ok
                          THEN /\ dec' = [dec EXCEPT !.data = r.out]
                               /\ pc' = "d_header"
                               /\ UNCHANGED << ret, stderr >>
                          ELSE /\ stderr' = Append(stderr, "lz11 decompression failed")
                               /\ Return(DecompressFailedCode)
                               /\ UNCHANGED dec
                 ELSE /\ stderr' = Append(stderr, "1LMG File is compressed")
                      /\ Return(CompressedCode)
                      /\ UNCHANGED dec
            ELSE /\ stderr' = Append(stderr, "File isn't 1LMG format")
                 /\ Return(NotFormatCode)
                 /\ UNCHANGED dec
       ELSE /\ pc' = "d_header"
            /\ UNCHANGED << dec, ret, stderr >>
    /\ UNCHANGED << fs, stage, call, enc, stdout, fs0 >>

\* the three header fields after the magic, and the section positions
decode_header ==
    /\ pc = "d_header"
    /\ IF Len(dec.data) < 16
       THEN Raise /\ UNCHANGED dec
       ELSE LET mystery == unpack_L(ReadAt(dec.data, 4, 4))
                data_length == unpack_L(ReadAt(dec.data, 8, 4))
                string_length == unpack_L(ReadAt(dec.data, 12, 4))
                string_position == HeaderSize + data_length
                pointers_position == string_position + string_length
            IN  /\ dec' = [dec EXCEPT !.mystery = mystery,
                                      !.data_length = data_length,
                                      !.string_length = string_length,
                                      !.string_position = string_position,
                                      !.pointers_position = pointers_position,
                                      !.pos = pointers_position]
                /\ pc' = "d_count"
                /\ UNCHANGED ret
    /\ UNCHANGED << fs, stage, call, enc, stderr, stdout, fs0 >>

\* the check of the count that lets a zero through
NoMessages_negative(message_count) == message_count < 0

\* if message_count == 0
NoMessages(message_count) == message_count = 0

\* the message count heads the pointer table; zero is an error
decode_count ==
    /\ pc = "d_count"
    /\ LET raw == ReadAt(dec.data, dec.pos, 4)
       IN  IF Len(raw) < 4
           THEN Raise /\ UNCHANGED << dec, stderr >>
           ELSE IF NoMessages(unpack_L(raw))
                THEN /\ stderr' = Append(stderr, "1LMG is empty")
                     /\ Return(EmptyCode)
                     /\ UNCHANGED dec
                ELSE /\ dec' = [dec EXCEPT !.message_count = unpack_L(raw),
                                           !.labels_position =
                                               dec.pointers_position + 4 + unpack_L(raw) * 8,
                                           !.pos = dec.pos + 4,
                                           !.messages = << >>]
                     /\ pc' = "d_first"
                     /\ UNCHANGED << ret, stderr >>
    /\ UNCHANGED << fs, stage, call, enc, stdout, fs0 >>

\* messages[m-1].length = messages[m].pointer - messages[m-1].pointer
DeltaLength(pointer, next_pointer) == next_pointer - pointer

\* the distance to the pointer table instead of the string section
LastLength_to_table(string_position, pointer) == string_position + 4 - pointer

\* messages[-1].length = string_position - messages[-1].pointer
LastLength(string_position, pointer) == string_position - pointer

\* the first pointer-table entry, read outside of the loop
decode_first ==
    /\ pc = "d_first"
    /\ LET raw == ReadAt(dec.data, dec.pos, 8)
       IN  IF Len(raw) < 8
           THEN Raise /\ UNCHANGED dec
           ELSE /\ dec' = [dec EXCEPT
                      !.messages = Append(dec.messages,
                          Message(unpack_L(SubSeq(raw, 1, 4)), unpack_L(SubSeq(raw, 5, 8)))),
                      !.pos = dec.pos + 8,
                      !.m = 1]
                /\ pc' = IF dec.message_count > 1 THEN "d_loop" ELSE "d_last"
                /\ UNCHANGED ret
    /\ UNCHANGED << fs, stage, call, enc, stderr, stdout, fs0 >>

\* one turn of the loop: read entry m, then give entry m-1 its length
decode_loop ==
    /\ pc = "d_loop"
    /\ LET raw == ReadAt(dec.data, dec.pos, 8)
           m == dec.m
       IN  IF Len(raw) < 8
           THEN Raise /\ UNCHANGED dec
           ELSE LET new == Message(unpack_L(SubSeq(raw, 1, 4)), unpack_L(SubSeq(raw, 5, 8)))
                    prev == dec.messages[m]
                IN  /\ dec' = [dec EXCEPT
                           !.messages = Append(
                               [dec.messages EXCEPT ![m] =
                                   [prev EXCEPT !.length = DeltaLength(prev.pointer, new.pointer),
                                                !.length_set = TRUE]],
                               new),
                           !.pos = dec.pos + 8,
                           !.m = m + 1]
                    /\ pc' = IF m + 1 < dec.message_count THEN "d_loop" ELSE "d_last"
                    /\ UNCHANGED ret
    /\ UNCHANGED << fs, stage, call, enc, stderr, stdout, fs0 >>

\* the last message's length is its distance to the string section
decode_last ==
    /\ pc = "d_last"
    /\ LET n == Len(dec.messages)
           last == dec.messages[n]
       IN  dec' = [dec EXCEPT
               !.messages[n] = [last EXCEPT
                   !.length = LastLength(dec.string_position, last.pointer),
                   !.length_set = TRUE],
               !.k = 1]
    /\ pc' = "d_message"
    /\ UNCHANGED << fs, stage, call, enc, ret, stderr, stdout, fs0 >>

\* message.get_label(data, labels_position); message.decode(data)
decode_message ==
    /\ pc = "d_message"
    /\ LET msg == dec.messages[dec.k]
           r == Message_decode(dec.data, msg.pointer, msg.length)
       IN  IF r.ok
           THEN /\ dec' = [dec EXCEPT
                       !.messages[dec.k] = [msg EXCEPT
                           !.label = get_label(dec.data, dec.labels_position,
                                               msg.label_pointer),
                           !.decoded = r.text],
                       !.k = dec.k + 1]
                /\ pc' = IF dec.k < Len(dec.messages) THEN "d_message" ELSE "d_strip"
                /\ UNCHANGED ret
           ELSE Raise /\ UNCHANGED dec
    /\ UNCHANGED << fs, stage, call, enc, stderr, stdout, fs0 >>

\* the cut made whatever the string section's length
StripPad_any_file(string_length, decoded) ==
    LET n == 1 + Len(commands_fffe)
        tail == SubSeq(decoded, Max(1, Len(decoded) - n + 1), Len(decoded))
    IN  IF tail = commands_fffe \o << 48 >>
        THEN SubSeq(decoded, 1, Len(decoded) - 1)
        ELSE decoded

\* the last message's text once the lingering pad of a dialogue file is cut
StripPad(string_length, decoded) ==
    LET n == 1 + Len(commands_fffe)
        tail == SubSeq(decoded, Max(1, Len(decoded) - n + 1), Len(decoded))
    IN  IF string_length = 4 /\ tail = commands_fffe \o << 48 >>
        THEN SubSeq(decoded, 1, Len(decoded) - 1)
        ELSE decoded

decode_strip ==
    /\ pc = "d_strip"
    /\ LET n == Len(dec.messages)
       IN  dec' = [dec EXCEPT !.messages[n].decoded =
                                  StripPad(dec.string_length, dec.messages[n].decoded)]
    /\ pc' = "d_save"
    /\ UNCHANGED << fs, stage, call, enc, ret, stderr, stdout, fs0 >>

\* everything the messages print as, in order
Rendered(messages) == Concat([j \in 1..Len(messages) |-> Message_str(messages[j])])

\* print the messages, or save them; 0 for a full decode, 1 for a partial one
decode_save ==
    /\ pc = "d_save"
    /\ IF call.savepath = "None"
       THEN /\ stdout' = stdout \o Rendered(dec.messages) \o << 10 >>
            /\ UNCHANGED fs
       ELSE /\ fs' = [fs EXCEPT ![call.savepath] = File(utf8_encode(Rendered(dec.messages)))]
            /\ UNCHANGED stdout
    /\ Return(IF dec.string_length = 4 THEN 0 ELSE 1)
    /\ UNCHANGED << stage, call, dec, enc, stderr, fs0 >>

\* ------------------------------------------------------- encode_1LMG
\* encode_1LMG's error codes
MismatchCode == -1
EncodingErrorCode == -3

\* the split with its first element kept
Segments_keep_first(text) == Split(text, Separator)

\* data.split('===\n')[1:]
Segments(text) == Tail(Split(text, Separator))

\* len(data) % 2 != 0
Mismatched(segments) == Len(segments) % 2 # 0

\* data[i][:data[i].rfind('\n')]; with no line feed the slice is [:-1]
CutLastLine(s) ==
    LET at == RFind(s, << 10 >>)
    IN  IF at = -1 THEN SubSeq(s, 1, Len(s) - 1) ELSE SubSeq(s, 1, at)

\* data[i].split(" Position")[0]
BeforeMarker(s) == Split(s, PositionMarker)[1]

\* the message list of the cut segments: label, text, label, text, ...
ParseMessages(segments) ==
    LET cut == [j \in 1..Len(segments) |->
                   IF j < Len(segments) THEN CutLastLine(segments[j]) ELSE segments[j]]
    IN  [j \in 1..(Len(segments) \div 2) |->
            [Message(0, 0) EXCEPT !.label = BeforeMarker(cut[2 * j - 1]),
                                  !.decoded = cut[2 * j]]]

\* read the text, split it, and refuse a label without a text
encode_open ==
    /\ pc = "e_open"
    /\ LET segments == Segments(utf8_decode(fs[call.loadpath].bytes))
       IN  /\ enc' = [EncInit EXCEPT !.segments = segments]
           /\ IF Mismatched(segments)
              THEN /\ stderr' = Append(stderr, "Mismatching number of labels and messages")
                   /\ Return(MismatchCode)
              ELSE /\ pc' = "e_parse"
                   /\ UNCHANGED << ret, stderr >>
    /\ UNCHANGED << fs, stage, call, dec, stdout, fs0 >>

\* the message list, and the four sections as they start out
encode_parse ==
    /\ pc = "e_parse"
    /\ enc' = [enc EXCEPT !.messages = ParseMessages(enc.segments),
                          !.data = << >>,
                          !.strings = << 42 >> \o Zeros(3),
                          !.table = pack_L(Len(enc.segments) \div 2),
                          !.labels = << 42 >> \o Zeros(1),
                          !.i = 1]
    /\ pc' = IF Len(enc.segments) > 0 THEN "e_message" ELSE "e_build"
    /\ UNCHANGED << fs, stage, call, dec, ret, stderr, stdout, fs0 >>

\* the entry without the header's size in the data offset
TableEntry_no_header(labels, data) == pack_L(Len(labels)) \o pack_L(Len(data))

\* pack('<LL', labels.seek(0,2), data.seek(0,2) + 0x34)
TableEntry(labels, data) == pack_L(Len(labels)) \o pack_L(Len(data) + HeaderSize)

\* one turn of the loop: the table entry, then the payload and the label
encode_message ==
    /\ pc = "e_message"
    /\ LET msg == enc.messages[enc.i]
           e == Message_encode(msg.decoded)
           table == enc.table \o TableEntry(enc.labels, enc.data)
       IN  IF ~e.ok
           THEN /\ enc' = [enc EXCEPT !.table = table]
                /\ stderr' = Append(stderr, "File had encoding error")
                /\ Return(EncodingErrorCode)
           ELSE /\ enc' = [enc EXCEPT !.table = table,
                                      !.data = enc.data \o e.bytes,
                                      !.labels = enc.labels \o utf8_encode(msg.label) \o Zeros(1),
                                      !.i = enc.i + 1]
                /\ pc' = IF enc.i < Len(enc.messages) THEN "e_message" ELSE "e_build"
                /\ UNCHANGED << ret, stderr >>
    /\ UNCHANGED << fs, stage, call, dec, stdout, fs0 >>

\* a section padded to a multiple of 2 bytes only
PadTo4_to_two(buf) == IF Len(buf) % 2 # 0 THEN buf \o Zeros(1) ELSE buf

\* a section zero-padded to a multiple of 4 bytes
PadTo4(buf) == IF Len(buf) % 4 # 0 THEN buf \o Zeros(4 - (Len(buf) % 4)) ELSE buf

\* magic, blank mystery, the three lengths, 0x20 reserved bytes
Header(data, strings, table, labels) ==
    Magic \o Zeros(4)
    \o pack_L(Len(data)) \o pack_L(Len(strings)) \o pack_L(Len(table) + Len(labels))
    \o Zeros(32)

\* pad the sections, fill in the header, merge everything into it
encode_build ==
    /\ pc = "e_build"
    /\ LET data == PadTo4(enc.data)
           labels == PadTo4(enc.labels)
       IN  enc' = [enc EXCEPT
               !.data = data,
               !.labels = labels,
               !.header = Header(data, enc.strings, enc.table, labels)
                          \o data \o enc.strings \o enc.table \o labels]
    /\ pc' = "e_create"
    /\ UNCHANGED << fs, stage, call, dec, ret, stderr, stdout, fs0 >>

\* open(savepath, 'wb') creates the file, or empties it
encode_create ==
    /\ pc = "e_create"
    /\ fs' = [fs EXCEPT ![call.savepath] = File(<< >>)]
    /\ pc' = "e_write"
    /\ UNCHANGED << stage, call, dec, enc, ret, stderr, stdout, fs0 >>

\* (savepath[-3:] == ".lz" and compress == 2) or compress == 3
Compresses(savepath, compress) == (EndsWithLz(savepath) /\ compress = 2) \/ compress = 3

\* write the buffer, compressed or as it is; lz11_compress runs with
\* the file open, and either gives the stream or raises
encode_write ==
    /\ pc = "e_write"
    /\ IF Compresses(call.savepath, call.compress)
       THEN \/ /\ fs' = [fs EXCEPT ![call.savepath] = File(lz11_compress(enc.header))]
               /\ Return(0)
            \/ /\ Raise
               /\ UNCHANGED fs
       ELSE /\ fs' = [fs EXCEPT ![call.savepath] = File(enc.header)]
            /\ Return(0)
    /\ UNCHANGED << stage, call, dec, enc, stderr, stdout, fs0 >>

\* ------------------------------------------------------------ inputs
\* the 16-bit units the input payloads are made of: '0', '1', the stop marker
Units == {0, 1, 65534}

UnitBytes(u) == << u % 256, u \div 256 >>

\* the last message's payload: up to MaxUnits units
LastPayloads == UNION {[1..n -> Units] : n \in 0..MaxUnits}

\* the payloads of the messages before the last
OtherPayloads == {<< >>, << 1, 65534 >>}

MessageLists ==
    UNION {{others \o << last >> : others \in [1..(n - 1) -> OtherPayloads],
                                    last \in LastPayloads} : n \in 1..MaxMessages}

Variants == {"plain", "mystery", "unaligned", "script", "empty", "swapped", "marker"}

RECURSIVE Sum(_)
Sum(ns) == IF ns = << >> THEN 0 ELSE Head(ns) + Sum(Tail(ns))

AlignUp(buf) == buf \o Zeros((4 - (Len(buf) % 4)) % 4)

\* a 1LMG file laid out as the format describes, with one deviation per variant
Container(payloads, variant) ==
    LET n == Len(payloads)
        raw == [j \in 1..n |-> Concat([k \in 1..Len(payloads[j]) |-> UnitBytes(payloads[j][k])])]
        data == IF variant = "unaligned" THEN Concat(raw) ELSE AlignUp(Concat(raw))
        strings == IF variant = "script" THEN << 42 >> \o Zeros(7) ELSE << 42 >> \o Zeros(3)
        label == [j \in 1..n |->
                     IF variant = "marker" /\ j = 1
                     THEN << 97 >> \o PositionMarker \o << 98 >>
                     ELSE << 96 + j >>]
        label_at == [j \in 1..n |-> 2 + Sum([k \in 1..(j - 1) |-> Len(label[k]) + 1])]
        data_at == [j \in 1..n |-> HeaderSize + Sum([k \in 1..(j - 1) |-> Len(raw[k])])]
        slot == [j \in 1..n |-> IF variant = "swapped" THEN n + 1 - j ELSE j]
        table == pack_L(IF variant = "empty" THEN 0 ELSE n)
                 \o Concat([j \in 1..n |-> pack_L(label_at[slot[j]]) \o pack_L(data_at[slot[j]])])
        labels == AlignUp(<< 42, 0 >> \o Concat([j \in 1..n |-> label[j] \o << 0 >>]))
    IN  Magic \o pack_L(IF variant = "mystery" THEN 16909060 ELSE 0)
        \o pack_L(Len(data)) \o pack_L(Len(strings)) \o pack_L(Len(table) + Len(labels))
        \o Zeros(32) \o data \o strings \o table \o labels

Containers == {Container(p, v) : p \in MessageLists, v \in Variants}

\* files that are no plain container: junk, a cut-off header, a broken
\* compressed stream, and compressed containers
OtherFiles ==
    {<< 1, 2, 3 >>, Magic, << 17, 200, 0, 0, 0 >> \o Magic \o Zeros(3)}
    \cup {lz11_compress(Container(<< p >>, "plain")) : p \in LastPayloads}

\* the segments the input texts are made of: "a\n", "1[STOP]\n", "[X\n", "b"
TextSegments ==
    {<< 97, 10 >>, << 49 >> \o commands_fffe \o << 10 >>, << 91, 88, 10 >>, << 98 >>}

\* texts with up to MaxPieces separators, with or without a line before the first
Texts ==
    UNION {{lead \o Concat([j \in 1..n |-> Separator \o segs[j]]) :
               segs \in [1..n -> TextSegments], lead \in {<< >>, << 98, 10 >>}} :
           n \in 0..MaxPieces}

\* what an output file holds before the session writes it
OldBytes == << 7 >>

\* ------------------------------------------------------------ session
NoCall == [fn |-> "none", loadpath |-> "in", savepath |-> "None", compress |-> 2]

Init ==
    /\ \/ /\ stage = 0
          /\ \E b \in Containers \cup OtherFiles :
                 fs = [p \in Paths |->
                          IF p = "in" THEN File(b)
                          ELSE IF p \in {"bin", "txt2"} THEN File(OldBytes) ELSE NoFile]
       \/ /\ stage = 1
          /\ \E t \in Texts :
                 fs = [p \in Paths |->
                          IF p = "txt" THEN File(utf8_encode(t))
                          ELSE IF p \in {"bin", "txt2"} THEN File(OldBytes) ELSE NoFile]
    /\ call = NoCall
    /\ pc = "idle"
    /\ dec = DecInit
    /\ enc = EncInit
    /\ ret = 0
    /\ stderr = << >>
    /\ stdout = << >>
    /\ fs0 = fs

\* decode_1LMG(loadpath, savepath, compress): the input file first, then the
\* file the encoder saved
call_decode ==
    /\ pc = "idle"
    /\ stage \in {0, 2}
    /\ \E savepath \in IF stage = 0 THEN {"txt", "None"} ELSE {"txt2"}, compress \in {1, 2} :
           call' = [fn |-> "decode_1LMG",
                    loadpath |-> IF stage = 0 THEN "in" ELSE call.savepath,
                    savepath |-> savepath, compress |-> compress]
    /\ pc' = "d_open"
    /\ fs0' = fs
    /\ UNCHANGED << fs, stage, dec, enc, ret, stderr, stdout >>

\* encode_1LMG(loadpath, savepath, compress) on the text file
call_encode ==
    /\ pc = "idle"
    /\ stage = 1
    /\ \E savepath \in {"bin", "bin.lz"}, compress \in {1, 2, 3} :
           call' = [fn |-> "encode_1LMG", loadpath |-> "txt",
                    savepath |-> savepath, compress |-> compress]
    /\ pc' = "e_open"
    /\ fs0' = fs
    /\ UNCHANGED << fs, stage, dec, enc, ret, stderr, stdout >>

\* a call that returned 0 or more leaves a file for the next tool
next_file ==
    /\ pc = "returned"
    /\ ret >= 0
    /\ stage < 2
    /\ call.savepath # "None"
    /\ stage' = stage + 1
    /\ pc' = "idle"
    /\ UNCHANGED << fs, call, dec, enc, ret, stderr, stdout, fs0 >>

Next ==
    \/ call_decode
    \/ decode_open
    \/ decode_magic
    \/ decode_header
    \/ decode_count
    \/ decode_first
    \/ decode_loop
    \/ decode_last
    \/ decode_message
    \/ decode_strip
    \/ decode_save
    \/ call_encode
    \/ encode_open
    \/ encode_parse
    \/ encode_message
    \/ encode_build
    \/ encode_create
    \/ encode_write
    \/ next_file

Spec == Init /\ [][Next]_vars

\* -------------------------------------------------------- properties
\* the container the session's input file holds, decompressed when it is compressed
InputContainer ==
    IF Slice(fs["in"].bytes, 0, 4) = Magic THEN fs["in"].bytes
    ELSE lz11_decompress(fs["in"].bytes).out

\* the session began with a container whose string section is 4 bytes long
FullFidelityInput ==
    /\ fs["in"].exists
    /\ Len(InputContainer) >= 16
    /\ unpack_L(SubSeq(InputContainer, 13, 16)) = 4

\* ... and whose data section is 4-byte aligned, as the format lays it out
AlignedInput == unpack_L(SubSeq(InputContainer, 9, 12)) % 4 = 0

\* the second decode of the round trip has ended, with decompression allowed
SecondDecodeEnded ==
    /\ stage = 2
    /\ call.fn = "decode_1LMG"
    /\ call.compress = 2
    /\ pc \in {"returned", "raised"}

\* C1: decoding a full-fidelity container (laid out as the format describes),
\* encoding the text and decoding the result gives the text of the first decode
\* again: the same messages, labels, order and rendered text
C1_RoundTrip ==
    (FullFidelityInput /\ AlignedInput /\ SecondDecodeEnded)
        => (pc = "returned" /\ ret = 0 /\ fs["txt2"].bytes = fs["txt"].bytes)

\* the diagnostic of the call that just failed
Diag == stderr[Len(stderr)]

DecodeFailed == call.fn = "decode_1LMG" /\ pc = "returned" /\ ret < 0

\* C2: the four failure kinds of decode_1LMG (format error, compressed with
\* compression disabled, decompression failure, empty resource) have pairwise
\* different error codes: a failure of one kind never returns the code of another
C2_DistinctCodes ==
    DecodeFailed =>
        /\ Diag = "File isn't 1LMG format"
               => ret \notin {CompressedCode, DecompressFailedCode, EmptyCode}
        /\ Diag = "1LMG File is compressed"
               => ret \notin {NotFormatCode, DecompressFailedCode, EmptyCode}
        /\ Diag = "lz11 decompression failed"
               => ret \notin {NotFormatCode, CompressedCode, EmptyCode}
        /\ Diag = "1LMG is empty"
               => ret \notin {NotFormatCode, CompressedCode, DecompressFailedCode}

\* the 4 bytes at 0x34 + data_length + string_length of a container
CountField(buf) ==
    ReadAt(buf, HeaderSize + unpack_L(SubSeq(buf, 9, 12)) + unpack_L(SubSeq(buf, 13, 16)), 4)

\* decode_1LMG is past its check of the message count
PastCount ==
    /\ call.fn = "decode_1LMG"
    /\ \/ pc \in {"d_first", "d_loop", "d_last", "d_message", "d_strip", "d_save"}
       \/ pc = "returned" /\ ret >= 0

\* C3: a container whose message count is zero makes decode_1LMG return the
\* empty-resource error, with no Message created, nothing printed and the
\* output file neither created nor written; no other container gets that error
C3_EmptyResource ==
    /\ PastCount => unpack_L(CountField(dec.data)) # 0
    /\ (DecodeFailed /\ ret = EmptyCode)
           => /\ unpack_L(CountField(dec.data)) = 0
              /\ Diag = "1LMG is empty"
              /\ dec.messages = << >>
              /\ stdout = << >>
              /\ fs = fs0

\* an empty container was refused and the output file still does not exist
C3_Witness ==
    /\ DecodeFailed
    /\ ret = EmptyCode
    /\ call.savepath = "txt"
    /\ ~fs["txt"].exists

\* the text encode_1LMG was given
InputText == utf8_decode(fs0["txt"].bytes)

\* encode_1LMG is past its check of the segments
EncodePastOpen == call.fn = "encode_1LMG" /\ pc # "e_open"

MismatchReturned ==
    /\ pc = "returned"
    /\ ret = MismatchCode
    /\ Diag = "Mismatching number of labels and messages"

\* C4, as stated: encode_1LMG returns the mismatch error, leaving the output
\* file alone, exactly when splitting the text on the separator gives an odd
\* number of segments
C4_OddSplit ==
    EncodePastOpen =>
        /\ MismatchReturned <=> Len(Split(InputText, Separator)) % 2 = 1
        /\ MismatchReturned => fs = fs0

\* C4, amended: encode_1LMG returns the mismatch error, leaving the output file
\* alone, exactly when the segments after the first separator (the split
\* without its first element) are odd in number
C4_OddSegments ==
    EncodePastOpen =>
        /\ MismatchReturned <=> (Len(Split(InputText, Separator)) - 1) % 2 = 1
        /\ MismatchReturned => fs = fs0

\* a text that splits in two, a lead and one label, was refused
C4_Witness ==
    /\ call.fn = "encode_1LMG"
    /\ MismatchReturned
    /\ Len(Split(InputText, Separator)) = 2
    /\ fs = fs0

EncodeFailed ==
    /\ call.fn = "encode_1LMG"
    /\ pc = "raised" \/ (pc = "returned" /\ ret < 0)

\* the payload message j of the encoder's list encodes to
Payload(j) == Message_encode(enc.messages[j].decoded)

\* C5: the first message whose encode() gives an error aborts the build, no
\* later message is encoded, and on every failing run of encode_1LMG (segment
\* mismatch, encode error, failure of lz11_compress) the output file is neither
\* created, emptied nor written
C5_NoPartialOutput ==
    EncodeFailed =>
        /\ fs = fs0
        /\ (pc = "returned" /\ ret = EncodingErrorCode)
               => /\ ~Payload(enc.i).ok
                  /\ \A j \in 1..(enc.i - 1) : Payload(j).ok
                  /\ enc.data = Concat([j \in 1..(enc.i - 1) |-> Payload(j).bytes])

\* the data offset of entry j of the pointer table of a container
PointerField(buf, j) ==
    unpack_L(ReadAt(buf, HeaderSize + unpack_L(SubSeq(buf, 9, 12))
                         + unpack_L(SubSeq(buf, 13, 16)) + 4 + 8 * (j - 1) + 4, 4))

\* decode_1LMG has read the whole pointer table and set the last length
LengthsDerived ==
    /\ call.fn = "decode_1LMG"
    /\ \/ pc \in {"d_message", "d_strip", "d_save"}
       \/ pc = "returned" /\ ret >= 0

\* C6: from decode_last on, so before any message is decoded, every message of
\* the n >= 1 in the table has its length: the next entry's data offset minus
\* its own, and for the last one 0x34 + data_length minus its own; pointers
\* 0x34, 0x34+10, 0x34+15 before a string section at 0x34+22 give 10, 5, 7
C6_Lengths ==
    /\ DeltaLength(52, 62) = 10 /\ DeltaLength(62, 67) = 5 /\ LastLength(74, 67) = 7
    /\ (call.fn = "decode_1LMG" /\ pc \in {"d_first", "d_loop", "d_last"})
           => \A j \in 1..Len(dec.messages) :
                  dec.messages[j].label = << >> /\ dec.messages[j].decoded = << >>
    /\ LengthsDerived =>
           LET n == unpack_L(CountField(dec.data))
           IN  /\ n >= 1
               /\ Len(dec.messages) = n
               /\ \A j \in 1..n :
                      /\ dec.messages[j].length_set
                      /\ dec.messages[j].length =
                             IF j < n
                             THEN PointerField(dec.data, j + 1) - PointerField(dec.data, j)
                             ELSE HeaderSize + unpack_L(SubSeq(dec.data, 9, 12))
                                  - PointerField(dec.data, n)

\* two messages have their lengths and none is decoded yet
C6_Witness ==
    /\ call.fn = "decode_1LMG"
    /\ pc = "d_message"
    /\ dec.k = 1
    /\ Len(dec.messages) = 2
    /\ dec.messages[1].length = 4
    /\ dec.messages[2].length = 2

\* what message j decoded to, before the pad is cut
Decoded(j) == Message_decode(dec.data, dec.messages[j].pointer, dec.messages[j].length).text

\* the last message is a dialogue file's and ends with the stop token and a '0'
PadLingers ==
    LET n == Len(dec.messages)
        mark == commands_fffe \o << 48 >>
    IN  /\ unpack_L(SubSeq(dec.data, 13, 16)) = 4
        /\ Len(Decoded(n)) >= Len(mark)
        /\ SubSeq(Decoded(n), Len(Decoded(n)) - Len(mark) + 1, Len(Decoded(n))) = mark

\* C7: after the strip, the last message's text has lost exactly its final '0'
\* when string_length is 4 and the text ended with the stop token followed by
\* '0'; otherwise it is unchanged; and no other message's text changes:
\* "hello[STOP]0" becomes "hello[STOP]"
C7_StripPad ==
    /\ StripPad(4, << 104, 101, 108, 108, 111 >> \o commands_fffe \o << 48 >>)
           = << 104, 101, 108, 108, 111 >> \o commands_fffe
    /\ (call.fn = "decode_1LMG" /\ (pc = "d_save" \/ (pc = "returned" /\ ret >= 0)))
           => LET n == Len(dec.messages)
              IN  /\ \A j \in 1..(n - 1) : dec.messages[j].decoded = Decoded(j)
                  /\ dec.messages[n].decoded =
                         IF PadLingers THEN SubSeq(Decoded(n), 1, Len(Decoded(n)) - 1)
                         ELSE Decoded(n)

\* the pad of a dialogue file's last message has just been cut
C7_Witness ==
    /\ call.fn = "decode_1LMG"
    /\ pc = "d_save"
    /\ PadLingers
    /\ dec.messages[Len(dec.messages)].decoded = commands_fffe

\* the container encode_1LMG saved, decompressed when it was compressed
OutputContainer ==
    IF Slice(fs[call.savepath].bytes, 0, 4) = Magic THEN fs[call.savepath].bytes
    ELSE lz11_decompress(fs[call.savepath].bytes).out

\* C8: the container encode_1LMG builds from a decoded container's text has
\* that container's mystery field (bytes 4..7)
C8_MysteryPreserved ==
    (fs["in"].exists /\ call.fn = "encode_1LMG" /\ pc = "returned" /\ ret = 0)
        => SubSeq(OutputContainer, 5, 8) = SubSeq(InputContainer, 5, 8)

\* encode_1LMG has merged the sections into the output buffer
Built ==
    /\ call.fn = "encode_1LMG"
    /\ \/ pc \in {"e_create", "e_write"}
       \/ pc = "returned" /\ ret = 0

\* the label of message j as the label buffer holds it
LabelBytes(j) == utf8_encode(enc.messages[j].label) \o << 0 >>

RoundUp4(x) == ((x + 3) \div 4) * 4

\* C9: the buffer encode_1LMG builds from n messages is header (0x34 bytes),
\* data, the 4-byte placeholder, pointer table, labels; entry i of the table
\* holds the label buffer's and the data buffer's length before message i was
\* appended, the latter plus 0x34; data and labels are zero-padded to multiples
\* of 4; the header carries the padded data length, 4, and 4 + n*8 + the padded
\* label length; the total is 0x34 + data_length + 4 + table_length
C9_Layout ==
    Built =>
        LET out == enc.header
            n == Len(enc.messages)
            rawdata == Concat([j \in 1..n |-> Payload(j).bytes])
            rawlabels == << 42, 0 >> \o Concat([j \in 1..n |-> LabelBytes(j)])
            data_length == unpack_L(SubSeq(out, 9, 12))
            string_length == unpack_L(SubSeq(out, 13, 16))
            table_length == unpack_L(SubSeq(out, 17, 20))
            table_at == HeaderSize + data_length + 4
            labels_at == table_at + 4 + n * 8
        IN  /\ SubSeq(out, 1, 4) = Magic
            /\ data_length = RoundUp4(Len(rawdata))
            /\ string_length = 4
            /\ table_length = 4 + n * 8 + RoundUp4(Len(rawlabels))
            /\ Len(out) = HeaderSize + data_length + 4 + table_length
            /\ SubSeq(out, HeaderSize + 1, HeaderSize + data_length)
                   = rawdata \o Zeros(data_length - Len(rawdata))
            /\ SubSeq(out, HeaderSize + data_length + 1, table_at) = << 42, 0, 0, 0 >>
            /\ unpack_L(ReadAt(out, table_at, 4)) = n
            /\ \A j \in 1..n :
                   /\ unpack_L(ReadAt(out, table_at + 4 + 8 * (j - 1), 4))
                          = 2 + Sum([k \in 1..(j - 1) |-> Len(LabelBytes(k))])
                   /\ unpack_L(ReadAt(out, table_at + 8 + 8 * (j - 1), 4))
                          = HeaderSize + Sum([k \in 1..(j - 1) |-> Len(Payload(k).bytes)])
            /\ SubSeq(out, labels_at + 1, Len(out))
                   = rawlabels \o Zeros(RoundUp4(Len(rawlabels)) - Len(rawlabels))

\* two messages are laid out, and both sections needed padding
C9_Witness ==
    /\ Built
    /\ pc = "e_create"
    /\ Len(enc.messages) = 2
    /\ Len(Payload(1).bytes) + Len(Payload(2).bytes) = 6
    /\ Len(LabelBytes(1)) + Len(LabelBytes(2)) = 4
    /\ Len(enc.data) = 8
    /\ Len(enc.labels) = 8

\* the second decode has derived the lengths from the encoder's table
Rederived ==
    /\ stage = 2
    /\ call.fn = "decode_1LMG"
    /\ pc \in {"d_message", "d_strip", "d_save"}

\* C10: in a container built by encode_1LMG from n >= 1 messages the data
\* offsets never decrease down the table, the first is 0x34 and none exceeds
\* 0x34 + data_length; so the lengths decode_1LMG derives are not negative, are
\* the payload's length for every message but the last, the last payload's
\* length plus 0..3 pad bytes for the last, and add up to data_length
C10_EncoderOrder ==
    Rederived =>
        LET n == Len(enc.messages)
            ms == dec.messages
        IN  /\ n >= 1
            /\ Len(ms) = n
            /\ ms[1].pointer = HeaderSize
            /\ \A j \in 1..(n - 1) : ms[j].pointer <= ms[j + 1].pointer
            /\ \A j \in 1..n : ms[j].pointer <= HeaderSize + dec.data_length
            /\ \A j \in 1..n : ms[j].length >= 0
            /\ \A j \in 1..(n - 1) : ms[j].length = Len(Payload(j).bytes)
            /\ ms[n].length - Len(Payload(n).bytes) \in 0..3
            /\ Sum([j \in 1..n |-> ms[j].length]) = dec.data_length

\* the second decode derived two lengths, the last one with pad bytes in it
C10_Witness ==
    /\ Rederived
    /\ pc = "d_message"
    /\ Len(dec.messages) = 2
    /\ dec.messages[1].length = 4
    /\ dec.messages[2].length = Len(Payload(2).bytes) + 2

====
